---- MODULE Spec2Model ----
(***************************************************************************)
(* Model of the Box screen (src/project/src/screens/Box/Box.tsx): the      *)
(* catalog loader, the filter/sort effect and the four user operations.    *)
(*                                                                         *)
(* Strings the code takes apart (price-band and rating-band labels, titles *)
(* and the search text) are sequences of one-character strings, so that    *)
(* replace, split, Number, parseInt, toLowerCase and includes are computed *)
(* the way JavaScript computes them.  Categories and sort keys are only    *)
(* compared for equality and stay TLA+ strings.                            *)
(*                                                                         *)
(* Prices are whole dollars; rating.rate is carried in tenths of a star    *)
(* (39 is 3.9).  State updates made inside one handler are committed       *)
(* together (React 18 batching); the filter/sort effect is a passive       *)
(* effect that runs after the commit that changed one of its dependencies. *)
(***************************************************************************)
EXTENDS Integers, Sequences, FiniteSets

\* Longest catalog a response carries.
MaxCatalog == 2
\* Number of user operations in a run.
MaxEvents == 2
\* Most tokens selected over the three groups in a PipeSpec input.
MaxSelected == 2

VARIABLES
    products,             \* useState<Product[]>([])            line 23
    filteredProducts,     \* useState<Product[]>([])            line 24
    loading,              \* useState(true)                     line 25
    searchTerm,           \* useState("")                       line 26
    selectedCategories,   \* useState<string[]>([])             line 27
    selectedPriceRanges,  \* useState<string[]>([])             line 28
    selectedRatings,      \* useState<string[]>([])             line 29
    sortOption,           \* useState("popularity")             line 30
    fetchState,           \* "idle" | "pending" | "done": the promise of line 33
    response,             \* how the request of line 33 ended
    requests,             \* number of fetch calls made
    effectPending,        \* the effect of lines 47-103 is scheduled and has not run
    crashed,              \* a TypeError was thrown while rendering
    events,               \* user operations so far
    lastOp                \* the last operation other than a run of the effect

vars == <<products, filteredProducts, loading, searchTerm, selectedCategories,
          selectedPriceRanges, selectedRatings, sortOption, fetchState, response,
          requests, effectPending, crashed, events, lastOp>>

selection == <<searchTerm, selectedCategories, selectedPriceRanges,
               selectedRatings, sortOption>>

----------------------------------------------------------------------------
(* JavaScript values and string functions used by the code *)

\* A number, or NaN.  undefined behaves as NaN in every comparison made here.
Num(n) == [nan |-> FALSE, val |-> n]
NaN == [nan |-> TRUE, val |-> 0]

\* x >= y and x <= y on numbers: false as soon as one side is NaN.
Geq(x, y) == ~x.nan /\ ~y.nan /\ x.val >= y.val
Leq(x, y) == ~x.nan /\ ~y.nan /\ x.val <= y.val

Digits == <<"0", "1", "2", "3", "4", "5", "6", "7", "8", "9">>
IsDigit(c) == \E d \in 1..Len(Digits) : Digits[d] = c
DigitValue(c) == (CHOOSE d \in 1..Len(Digits) : Digits[d] = c) - 1

RECURSIVE DecimalValue(_)
DecimalValue(s) ==
    IF s = <<>> THEN 0
    ELSE DecimalValue(SubSeq(s, 1, Len(s) - 1)) * 10 + DigitValue(s[Len(s)])

\* Number(s) for a string of the alphabet used here (no blanks, sign or point):
\* 0 for the empty string, the value of a digit string, NaN otherwise.
Number(s) ==
    IF s = <<>> THEN Num(0)
    ELSE IF \A i \in 1..Len(s) : IsDigit(s[i]) THEN Num(DecimalValue(s))
    ELSE NaN

\* parseInt(s): the value of the longest digit prefix, NaN when it is empty.
ParseInt(s) ==
    LET n == IF \E i \in 1..Len(s) : ~IsDigit(s[i])
             THEN (CHOOSE i \in 1..Len(s) :
                      ~IsDigit(s[i]) /\ \A j \in 1..(i - 1) : IsDigit(s[j])) - 1
             ELSE Len(s)
    IN  IF n = 0 THEN NaN ELSE Num(DecimalValue(SubSeq(s, 1, n)))

\* s.indexOf(c) + 1: the first position of c in s, 0 when there is none.
IndexOf(s, c) ==
    IF \E i \in 1..Len(s) : s[i] = c
    THEN CHOOSE i \in 1..Len(s) : s[i] = c /\ \A j \in 1..(i - 1) : s[j] # c
    ELSE 0

\* s.includes(c) for a one-character c.
IncludesChar(s, c) == IndexOf(s, c) # 0

\* s.replace(c, ''): a string pattern replaces the FIRST occurrence only.
ReplaceFirst(s, c) ==
    LET i == IndexOf(s, c)
    IN  IF i = 0 THEN s ELSE SubSeq(s, 1, i - 1) \o SubSeq(s, i + 1, Len(s))

\* s.split(sep) for a one-character sep.
RECURSIVE Split(_, _)
Split(s, sep) ==
    LET i == IndexOf(s, sep)
    IN  IF i = 0 THEN <<s>>
        ELSE <<SubSeq(s, 1, i - 1)>> \o Split(SubSeq(s, i + 1, Len(s)), sep)

\* arr[i] of a number array: undefined (here NaN) past its end.
Element(arr, i) == IF i <= Len(arr) THEN arr[i] ELSE NaN

Lower(c) ==
    CASE c = "A" -> "a"
      [] c = "B" -> "b"
      [] c = "C" -> "c"
      [] OTHER -> c

\* s.toLowerCase()
ToLowerCase(s) == IF s = <<>> THEN <<>> ELSE [i \in 1..Len(s) |-> Lower(s[i])]

\* s.includes(t) for strings.
StringIncludes(s, t) ==
    \E i \in 0..(Len(s) - Len(t)) : SubSeq(s, i + 1, i + Len(t)) = t

\* arr.includes(x)
ArrayIncludes(arr, x) == \E i \in 1..Len(arr) : arr[i] = x

----------------------------------------------------------------------------
(* The filter option lists *)

categories == <<"electronics", "jewelery", "men's clothing", "women's clothing">>

Band0to50 == <<"$", "0", "-", "$", "5", "0">>
Band50to100 == <<"$", "5", "0", "-", "$", "1", "0", "0">>
Band100to200 == <<"$", "1", "0", "0", "-", "$", "2", "0", "0">>
Band200plus == <<"$", "2", "0", "0", "+">>
priceRangeOptions == <<Band0to50, Band50to100, Band100to200, Band200plus>>

Rating5 == <<"5">>
Rating4plus == <<"4", "+">>
Rating3plus == <<"3", "+">>
ratingOptions == <<Rating5, Rating4plus, Rating3plus>>

filterCategories ==
    <<[name |-> "Category", options |-> categories],
      [name |-> "Price Range", options |-> priceRangeOptions],
      [name |-> "Rating", options |-> ratingOptions]>>

\* The values of the sort <select>.
sortOptions == {"popularity", "price-low-high", "price-high-low", "rating"}

----------------------------------------------------------------------------
(* The filter/sort pipeline of the effect, lines 47-103 *)

\* The search predicate, lines 52-54.
SearchMatches(product, term) ==
    StringIncludes(ToLowerCase(product.title), ToLowerCase(term))

\* The body of selectedPriceRanges.some, lines 68-72.
PriceInRange(price, range) ==
    LET parts == Split(ReplaceFirst(range, "$"), "-")
        nums == [i \in 1..Len(parts) |-> Number(parts[i])]
        min == Element(nums, 1)
        max == Element(nums, 2)
    IN  IF IncludesChar(range, "+")
        THEN Geq(Num(price), min)
        ELSE Geq(Num(price), min) /\ Leq(Num(price), max)

\* The rating test with > where the code has >=.
RatingAbove(rate, rating) ==
    LET minRating == ParseInt(Split(rating, "+")[1])
    IN  ~minRating.nan /\ rate > minRating.val * 10

\* The body of selectedRatings.some, lines 81-82 (rate is in tenths).
RatingAtLeast(rate, rating) ==
    LET minRating == ParseInt(Split(rating, "+")[1])
    IN  ~minRating.nan /\ rate >= minRating.val * 10

\* The four filter stages, lines 50-85, each skipped when its input is empty.
FilterStages(list, term, cats, ranges, ratings) ==
    LET s1 == IF term # <<>>
              THEN SelectSeq(list, LAMBDA p : SearchMatches(p, term))
              ELSE list
        s2 == IF Len(cats) > 0
              THEN SelectSeq(s1, LAMBDA p : ArrayIncludes(cats, p.category))
              ELSE s1
        s3 == IF Len(ranges) > 0
              THEN SelectSeq(s2, LAMBDA p :
                       \E i \in 1..Len(ranges) : PriceInRange(p.price, ranges[i]))
              ELSE s2
        s4 == IF Len(ratings) > 0
              THEN SelectSeq(s3, LAMBDA p :
                       \E i \in 1..Len(ratings) : RatingAtLeast(p.rate, ratings[i]))
              ELSE s3
    IN  s4

\* The comparator with the default case ascending.
CompareDefaultAscending(a, b, key) ==
    CASE key = "price-low-high" -> a.price - b.price
      [] key = "price-high-low" -> b.price - a.price
      [] key = "rating" -> b.rate - a.rate
      [] OTHER -> a.count - b.count

\* The comparator chosen by the switch of lines 88-100.
Compare(a, b, key) ==
    CASE key = "price-low-high" -> a.price - b.price
      [] key = "price-high-low" -> b.price - a.price
      [] key = "rating" -> b.rate - a.rate
      [] OTHER -> b.count - a.count

\* x put into a sorted list behind every element that does not compare
\* greater than it.
RECURSIVE Insert(_, _, _)
Insert(x, sorted, key) ==
    IF sorted = <<>> THEN <<x>>
    ELSE IF Compare(sorted[Len(sorted)], x, key) > 0
         THEN Append(Insert(x, SubSeq(sorted, 1, Len(sorted) - 1), key),
                     sorted[Len(sorted)])
         ELSE Append(sorted, x)

\* Array.prototype.sort with the comparator: a stable sort.
RECURSIVE Sort(_, _)
Sort(list, key) ==
    IF list = <<>> THEN <<>>
    ELSE Insert(list[Len(list)], Sort(SubSeq(list, 1, Len(list) - 1), key), key)

\* What one run of the effect hands to setFilteredProducts.
FilterAndSort(list, term, cats, ranges, ratings, key) ==
    Sort(FilterStages(list, term, cats, ranges, ratings), key)

----------------------------------------------------------------------------
(* Products, catalogs and responses *)

Product(id, title, price, category, rate, count) ==
    [id |-> id, title |-> title, price |-> price, category |-> category,
     rate |-> rate, count |-> count]

\* The products a response may carry: between them titles that match a
\* search text only when case is ignored, prices on the band edges 50 and 200,
\* rates on and beside the thresholds, a tie on price and a tie on count.
Universe ==
    { Product(1, <<"A", "b">>, 10, "electronics", 30, 50),
      Product(2, <<"b", "a">>, 50, "jewelery", 40, 10),
      Product(3, <<"c">>, 10, "electronics", 39, 30),
      Product(4, <<"a", "B">>, 200, "men's clothing", 50, 10) }

\* The catalogs a response may carry: product ids are unique.
Catalogs ==
    { c \in UNION { [1..n -> Universe] : n \in 0..MaxCatalog } :
        \A i, j \in 1..Len(c) : i # j => c[i].id # c[j].id }

\* What the user may type into the search box.
SearchTerms == { <<>>, <<"a">>, <<"A", "B">> }

\* A parsed JSON body: an array of products, or a value that is no array.
JsonArray(items) == [kind |-> "array", items |-> items]
JsonObject == [kind |-> "object", items |-> <<>>]

\* The ways the request can end: fetch rejects, or it resolves with a response
\* whose ok flag is set or not and whose body is no JSON, an array or an object.
NetworkError == [rejected |-> TRUE, ok |-> FALSE, json |-> FALSE, data |-> JsonObject]
HttpResponse(ok, json, data) ==
    [rejected |-> FALSE, ok |-> ok, json |-> json, data |-> data]
NoResponse == [rejected |-> FALSE, ok |-> FALSE, json |-> FALSE, data |-> JsonArray(<<>>)]

Responses ==
    {NetworkError}
    \cup { HttpResponse(ok, FALSE, JsonObject) : ok \in BOOLEAN }
    \cup { HttpResponse(ok, TRUE, JsonObject) : ok \in BOOLEAN }
    \cup { HttpResponse(ok, TRUE, JsonArray(c)) : ok \in BOOLEAN, c \in Catalogs }

----------------------------------------------------------------------------
(* The component *)

\* The state after the first render: the useState initial values, lines 23-30.
Init ==
    /\ products = JsonArray(<<>>)
    /\ filteredProducts = JsonArray(<<>>)
    /\ loading = TRUE
    /\ searchTerm = <<>>
    /\ selectedCategories = <<>>
    /\ selectedPriceRanges = <<>>
    /\ selectedRatings = <<>>
    /\ sortOption = "popularity"
    /\ fetchState = "idle"
    /\ response = NoResponse
    /\ requests = 0
    /\ effectPending = TRUE
    /\ crashed = FALSE
    /\ events = 0
    /\ lastOp = "init"

\* What the effect of lines 47-103 computes from the state it was scheduled in.
EffectResult ==
    JsonArray(FilterAndSort(products.items, searchTerm, selectedCategories,
                            selectedPriceRanges, selectedRatings, sortOption))

\* filteredProducts when the next render starts: React runs a scheduled
\* passive effect before it renders a later update.
Flushed == IF effectPending THEN EffectResult ELSE filteredProducts

\* Both effects run after the first commit: the loader issues the request
\* (line 33) and the filter/sort effect runs on the empty catalog.
Mount ==
    /\ fetchState = "idle"
    /\ fetchState' = "pending"
    /\ requests' = requests + 1
    /\ filteredProducts' = EffectResult
    /\ effectPending' = FALSE
    /\ lastOp' = "mount"
    /\ UNCHANGED <<products, loading, searchTerm, selectedCategories,
                   selectedPriceRanges, selectedRatings, sortOption, response,
                   crashed, events>>

\* A catch handler that only logs.
LoadingLeftSet == TRUE

\* The loading flag the catch handler sets, line 42.
LoadingAfterFailure == FALSE

\* The request ends with response r, lines 34-43.  A rejected fetch or a body
\* that is no JSON goes to the catch handler.  Any parsed body, whatever the
\* ok flag, goes to the handler of lines 35-39; the render that follows calls
\* filteredProducts.map (line 353), a TypeError when the body was no array.
FetchComplete(r) ==
    /\ fetchState = "pending"
    /\ ~crashed
    /\ fetchState' = "done"
    /\ response' = r
    /\ lastOp' = "fetch"
    /\ IF r.rejected \/ ~r.json
       THEN /\ loading' = LoadingAfterFailure
            /\ filteredProducts' = Flushed
            /\ UNCHANGED <<products, effectPending, crashed>>
       ELSE /\ products' = r.data
            /\ filteredProducts' = r.data
            /\ loading' = FALSE
            /\ effectPending' = TRUE
            /\ crashed' = (r.data.kind # "array")
    /\ UNCHANGED <<searchTerm, selectedCategories, selectedPriceRanges,
                   selectedRatings, sortOption, requests, events>>

\* The catalog after a sort in place of the catalog itself: what line 48
\* would allow were result the catalog and not a copy of it.
CatalogSortedInPlace ==
    IF searchTerm = <<>> /\ selectedCategories = <<>>
       /\ selectedPriceRanges = <<>> /\ selectedRatings = <<>>
    THEN [kind |-> "array", items |-> Sort(products.items, sortOption)]
    ELSE products

\* The catalog after a run of the effect: result is a copy (line 48), so the
\* sort of lines 88-100 leaves the catalog as it was.
CatalogAfterEffect == products

\* The filter/sort effect, lines 47-103.
RunEffect ==
    /\ fetchState # "idle"
    /\ effectPending
    /\ ~crashed
    /\ filteredProducts' = EffectResult
    /\ products' = CatalogAfterEffect
    /\ effectPending' = FALSE
    /\ UNCHANGED <<loading, searchTerm, selectedCategories, selectedPriceRanges,
                   selectedRatings, sortOption, fetchState, response, requests,
                   crashed, events, lastOp>>

UserMayAct == fetchState # "idle" /\ ~crashed /\ events < MaxEvents

\* An updater that adds the option whether or not it is selected.
ToggleNeverRemoves(prev, option) == Append(prev, option)

\* The updater of lines 153-157, 160-164 and 167-171.
Toggle(prev, option) ==
    IF ArrayIncludes(prev, option)
    THEN SelectSeq(prev, LAMBDA item : item # option)
    ELSE Append(prev, option)

\* handleFilterChange, lines 150-174, called by a checkbox (line 305).
HandleFilterChange(category, option) ==
    /\ UserMayAct
    /\ CASE category = "Category" ->
              /\ selectedCategories' = Toggle(selectedCategories, option)
              /\ UNCHANGED <<selectedPriceRanges, selectedRatings>>
         [] category = "Price Range" ->
              /\ selectedPriceRanges' = Toggle(selectedPriceRanges, option)
              /\ UNCHANGED <<selectedCategories, selectedRatings>>
         [] category = "Rating" ->
              /\ selectedRatings' = Toggle(selectedRatings, option)
              /\ UNCHANGED <<selectedCategories, selectedPriceRanges>>
    /\ filteredProducts' = Flushed
    /\ effectPending' = TRUE
    /\ events' = events + 1
    /\ lastOp' = "toggle"
    /\ UNCHANGED <<products, loading, searchTerm, sortOption, fetchState,
                   response, requests, crashed>>

\* setSearchTerm, line 280.  Setting the value already held renders nothing.
SetSearchTerm(value) ==
    /\ UserMayAct
    /\ searchTerm' = value
    /\ filteredProducts' = IF value = searchTerm THEN filteredProducts ELSE Flushed
    /\ effectPending' = (effectPending \/ value # searchTerm)
    /\ events' = events + 1
    /\ lastOp' = "search"
    /\ UNCHANGED <<products, loading, selectedCategories, selectedPriceRanges,
                   selectedRatings, sortOption, fetchState, response, requests,
                   crashed>>

\* setSortOption with sortOption missing from the dependencies of line 103.
SetSortOptionNoEffect(value) ==
    /\ UserMayAct
    /\ sortOption' = value
    /\ filteredProducts' = IF value = sortOption THEN filteredProducts ELSE Flushed
    /\ effectPending' = FALSE
    /\ events' = events + 1
    /\ lastOp' = "sort"
    /\ UNCHANGED <<products, loading, searchTerm, selectedCategories,
                   selectedPriceRanges, selectedRatings, fetchState, response,
                   requests, crashed>>

\* setSortOption, line 339.
SetSortOption(value) ==
    /\ UserMayAct
    /\ sortOption' = value
    /\ filteredProducts' = IF value = sortOption THEN filteredProducts ELSE Flushed
    /\ effectPending' = (effectPending \/ value # sortOption)
    /\ events' = events + 1
    /\ lastOp' = "sort"
    /\ UNCHANGED <<products, loading, searchTerm, selectedCategories,
                   selectedPriceRanges, selectedRatings, fetchState, response,
                   requests, crashed>>


\* handleReset without line 109.
HandleResetKeepsRatings ==
    /\ UserMayAct
    /\ searchTerm' = <<>>
    /\ selectedCategories' = <<>>
    /\ selectedPriceRanges' = <<>>
    /\ sortOption' = "popularity"
    /\ filteredProducts' = Flushed
    /\ effectPending' = TRUE
    /\ events' = events + 1
    /\ lastOp' = "reset"
    /\ UNCHANGED <<products, loading, selectedRatings, fetchState, response,
                   requests, crashed>>

\* handleReset, lines 105-111.  The three arrays are new objects, so the
\* effect is scheduled even when nothing was selected.
HandleReset ==
    /\ UserMayAct
    /\ searchTerm' = <<>>
    /\ selectedCategories' = <<>>
    /\ selectedPriceRanges' = <<>>
    /\ selectedRatings' = <<>>
    /\ sortOption' = "popularity"
    /\ filteredProducts' = Flushed
    /\ effectPending' = TRUE
    /\ events' = events + 1
    /\ lastOp' = "reset"
    /\ UNCHANGED <<products, loading, fetchState, response, requests, crashed>>

Next ==
    \/ Mount
    \/ \E r \in Responses : FetchComplete(r)
    \/ RunEffect
    \/ \E g \in 1..Len(filterCategories) :
          \E o \in 1..Len(filterCategories[g].options) :
             HandleFilterChange(filterCategories[g].name,
                                filterCategories[g].options[o])
    \/ \E value \in SearchTerms : SetSearchTerm(value)
    \/ \E value \in sortOptions : SetSortOption(value)
    \/ HandleReset

Spec == Init /\ [][Next]_vars

----------------------------------------------------------------------------
(* The pipeline on its own: every state the success handler of lines 35-39 *)
(* can leave behind, with the selections made while the request was        *)
(* pending, followed by the run of the effect.                             *)

Range(seq) == { seq[i] : i \in 1..Len(seq) }

\* The arrays toggling can build from a list of options: no token twice.
Selections(options) ==
    { s \in UNION { [1..n -> Range(options)] : n \in 0..MaxSelected } :
        \A i, j \in 1..Len(s) : i # j => s[i] # s[j] }

PipeInit ==
    /\ products \in { JsonArray(c) : c \in Catalogs }
    /\ filteredProducts = products
    /\ loading = FALSE
    /\ searchTerm \in SearchTerms
    /\ selectedCategories \in Selections(categories)
    /\ selectedPriceRanges \in Selections(priceRangeOptions)
    /\ selectedRatings \in Selections(ratingOptions)
    /\ Len(selectedCategories) + Len(selectedPriceRanges) + Len(selectedRatings)
          <= MaxSelected
    /\ sortOption \in sortOptions
    /\ fetchState = "done"
    /\ response = HttpResponse(TRUE, TRUE, products)
    /\ requests = 1
    /\ effectPending = TRUE
    /\ crashed = FALSE
    /\ events = 0
    /\ lastOp = "fetch"

PipeNext == RunEffect

PipeSpec == PipeInit /\ [][PipeNext]_vars

----------------------------------------------------------------------------
(* Properties of the pipeline, checked under PipeSpec *)

\* The effect has run on the state as it is now.
Recomputed == fetchState # "idle" /\ ~effectPending

Displayed == filteredProducts.items
Catalog == products.items

InDisplayed(p) == \E i \in 1..Len(Displayed) : Displayed[i] = p

\* The price bands as the option labels read: inclusive bounds, no upper
\* bound for the open band.
BandAccepts(band, price) ==
    CASE band = Band0to50 -> 0 <= price /\ price <= 50
      [] band = Band50to100 -> 50 <= price /\ price <= 100
      [] band = Band100to200 -> 100 <= price /\ price <= 200
      [] band = Band200plus -> price >= 200

\* The rating thresholds as the option labels read, in tenths of a star.
RatingThreshold(band) ==
    CASE band = Rating5 -> 50
      [] band = Rating4plus -> 40
      [] band = Rating3plus -> 30

SameLetter(a, b) ==
    a = b \/ {a, b} \in {{"a", "A"}, {"b", "B"}, {"c", "C"}}

\* q occurs in t when the case of letters is ignored.
CaseInsensitiveSubstring(q, t) ==
    \E k \in 0..(Len(t) - Len(q)) :
        \A i \in 1..Len(q) : SameLetter(t[k + i], q[i])

PassesSearch(p) ==
    searchTerm = <<>> \/ CaseInsensitiveSubstring(searchTerm, p.title)
PassesCategory(p) ==
    selectedCategories = <<>> \/ p.category \in Range(selectedCategories)
PassesRating(p) ==
    selectedRatings = <<>>
    \/ \E r \in Range(selectedRatings) : p.rate >= RatingThreshold(r)
PassesPrice(p) ==
    selectedPriceRanges = <<>>
    \/ \E b \in Range(selectedPriceRanges) : BandAccepts(b, p.price)

\* C1: when at least one price band is selected, a catalog product is in the
\* displayed list exactly when it passes the other active filters and its
\* price lies in at least one selected band, bounded bands accepting both of
\* their ends and "$200+" accepting every price from 200 on.
C1_PriceBandFilter ==
    (Recomputed /\ selectedPriceRanges # <<>>) =>
        \A p \in Range(Catalog) :
            InDisplayed(p) <=>
                (PassesSearch(p) /\ PassesCategory(p) /\ PassesRating(p)
                 /\ PassesPrice(p))

\* The field the sort key orders by, negated for a descending order.
SortField(p, key) ==
    CASE key = "price-low-high" -> p.price
      [] key = "price-high-low" -> 0 - p.price
      [] key = "rating" -> 0 - p.rate
      [] OTHER -> 0 - p.count

\* The place of a product in the catalog (ids are unique).
CatalogIndex(p) == CHOOSE i \in 1..Len(Catalog) : Catalog[i] = p

\* out holds the products of in, each once, in the order of the sort key,
\* products that tie on the sort field in catalog order.
StablySorted(out, in, key) ==
    /\ Len(out) = Len(in)
    /\ Range(out) = Range(in)
    /\ \A i, j \in 1..Len(out) :
          i < j =>
            /\ SortField(out[i], key) <= SortField(out[j], key)
            /\ SortField(out[i], key) = SortField(out[j], key)
                  => CatalogIndex(out[i]) < CatalogIndex(out[j])

\* C3: after recomputation the displayed list is the filtered products in the
\* order of the sort key (price ascending, price descending, rate descending,
\* count descending for 'popularity'), ties in catalog order; with no filter
\* and the default key it is the catalog stably sorted by descending count.
C3_SortStage ==
    Recomputed =>
        /\ StablySorted(Displayed,
                        FilterStages(Catalog, searchTerm, selectedCategories,
                                     selectedPriceRanges, selectedRatings),
                        sortOption)
        /\ (searchTerm = <<>> /\ selectedCategories = <<>>
            /\ selectedPriceRanges = <<>> /\ selectedRatings = <<>>
            /\ sortOption = "popularity")
              => /\ Range(Displayed) = Range(Catalog)
                 /\ Len(Displayed) = Len(Catalog)
                 /\ \A i, j \in 1..Len(Displayed) :
                       i < j =>
                         \/ Displayed[i].count > Displayed[j].count
                         \/ /\ Displayed[i].count = Displayed[j].count
                            /\ CatalogIndex(Displayed[i]) < CatalogIndex(Displayed[j])

\* C3's case: a recomputation whose sort moved the products of a full
\* catalog out of catalog order.
C3_Witness ==
    /\ Recomputed
    /\ Len(Displayed) = MaxCatalog
    /\ Displayed # Catalog
    /\ sortOption = "price-low-high"

\* C4: with no price band selected, a catalog product is displayed exactly
\* when the search text (if any) occurs in its title ignoring case, its
\* category is among the selected ones (if any) and its rate reaches the
\* threshold of a selected rating band (if any).
C4_FilterMembership ==
    (Recomputed /\ selectedPriceRanges = <<>>) =>
        \A p \in Range(Catalog) :
            InDisplayed(p) <=>
                (PassesSearch(p) /\ PassesCategory(p) /\ PassesRating(p))

\* C4's case: search text, a category and a rating band all active, one
\* catalog product kept and another dropped.
C4_Witness ==
    /\ Recomputed
    /\ searchTerm # <<>>
    /\ selectedCategories # <<>>
    /\ selectedRatings # <<>>
    /\ selectedPriceRanges = <<>>
    /\ Displayed # <<>>
    /\ Len(Displayed) < Len(Catalog)

----------------------------------------------------------------------------
(* Properties of the component, checked under Spec *)

Failed == fetchState = "done" /\ (response.rejected \/ ~response.ok)

Succeeded ==
    /\ fetchState = "done"
    /\ ~response.rejected
    /\ response.ok
    /\ response.json
    /\ response.data.kind = "array"

\* C2: however the fetch fails (network error, or a non-success response with
\* or without a JSON body), the loading flag is false afterwards, the catalog
\* and the displayed list are still the empty list and nothing was thrown.
C2_FetchFailure ==
    Failed =>
        /\ ~loading
        /\ products = JsonArray(<<>>)
        /\ filteredProducts = JsonArray(<<>>)
        /\ ~crashed

Occurrences(list, p) == Cardinality({ i \in 1..Len(list) : list[i] = p })

\* C5: after a successful fetch the catalog is the fetched list, in its
\* order, whatever the user and the effect did since; only the completion of
\* the fetch writes the catalog; the displayed list holds catalog products
\* only, none more often than the catalog does.
C5_CatalogIntegrity ==
    /\ [](Succeeded =>
            /\ products = response.data
            /\ \A p \in Range(Displayed) :
                  Occurrences(Displayed, p) <= Occurrences(Catalog, p))
    /\ [][products' # products
            => (fetchState = "pending" /\ fetchState' = "done")]_vars

\* C5's case: a fetched catalog that is not in sort order, after a user
\* operation and the recomputation that followed it.
C5_Witness ==
    /\ Succeeded
    /\ Recomputed
    /\ events > 0
    /\ Len(Catalog) = MaxCatalog
    /\ Displayed # Catalog
    /\ Len(Displayed) = Len(Catalog)

SelectionIsDefault ==
    /\ searchTerm = <<>>
    /\ selectedCategories = <<>>
    /\ selectedPriceRanges = <<>>
    /\ selectedRatings = <<>>
    /\ sortOption = "popularity"

\* C6: every state reset-filters leaves has the search text and the three
\* selections empty and the sort key 'popularity' (all five at once); the
\* reset leaves the catalog and the loading flag alone; a reset right after a
\* reset changes none of them.
C6_Reset ==
    /\ [](lastOp = "reset" => SelectionIsDefault)
    /\ [][(events' # events /\ lastOp' = "reset")
            => (products' = products /\ loading' = loading)]_vars
    /\ [][(events' # events /\ lastOp = "reset" /\ lastOp' = "reset")
            => (selection' = selection /\ products' = products
                /\ loading' = loading)]_vars

\* C6's case: a reset from a state whose selection filtered the loaded
\* catalog (the displayed list is still the filtered one).
C6_Witness ==
    /\ lastOp = "reset"
    /\ Succeeded
    /\ SelectionIsDefault
    /\ Len(Displayed) < Len(Catalog)

GroupSelection(g) ==
    CASE g = 1 -> selectedCategories
      [] g = 2 -> selectedPriceRanges
      [] g = 3 -> selectedRatings

NoTokenTwice(sel) == \A i, j \in 1..Len(sel) : i # j => sel[i] # sel[j]

\* C7: a toggle removes the option from its group's selection when it is
\* there and adds it otherwise, and leaves the other two selections, the
\* search text, the sort key and the catalog alone; toggling the same option
\* twice gives back the same set of tokens; no selection holds a token twice.
C7_Toggle ==
    /\ [](\A g \in 1..Len(filterCategories) :
            /\ NoTokenTwice(GroupSelection(g))
            /\ \A o \in Range(filterCategories[g].options) :
                  LET sel == GroupSelection(g)
                      once == Toggle(sel, o)
                      twice == Toggle(once, o)
                  IN  /\ Range(once) = IF o \in Range(sel)
                                       THEN Range(sel) \ {o}
                                       ELSE Range(sel) \cup {o}
                      /\ Range(twice) = Range(sel)
                      /\ NoTokenTwice(once))
    /\ [][(events' # events /\ lastOp' = "toggle") =>
            /\ searchTerm' = searchTerm
            /\ sortOption' = sortOption
            /\ products' = products
            /\ \E g \in 1..Len(filterCategories) :
                  /\ \A h \in 1..Len(filterCategories) :
                        h # g => GroupSelection(h)' = GroupSelection(h)
                  /\ \E o \in Range(filterCategories[g].options) :
                        Range(GroupSelection(g)') =
                            IF o \in Range(GroupSelection(g))
                            THEN Range(GroupSelection(g)) \ {o}
                            ELSE Range(GroupSelection(g)) \cup {o}]_vars

\* C7's case: the second of two toggles of one option has emptied the
\* selection the first one filled.
C7_Witness ==
    /\ lastOp = "toggle"
    /\ events = 2
    /\ selectedCategories = <<>>
    /\ selectedPriceRanges = <<>>
    /\ selectedRatings = <<>>

\* C8: one request is issued, at mount, and never another; the loading flag
\* is true until the request completes, false from then on, and changes at
\* the completion only.
C8_OneShotLoader ==
    /\ [](requests = IF fetchState = "idle" THEN 0 ELSE 1)
    /\ [](loading <=> fetchState # "done")
    /\ [][requests' # requests => fetchState = "idle"]_vars
    /\ [][loading' => loading]_vars
    /\ [][loading' # loading
            => (fetchState = "pending" /\ fetchState' = "done")]_vars

\* C8's case: the request has failed after the user acted while it was
\* pending, and the flag is down.
C8_Witness ==
    /\ fetchState = "done"
    /\ response.rejected
    /\ lastOp = "fetch"
    /\ events > 0
    /\ ~loading
    /\ requests = 1

\* C9: once the scheduled recomputation has run, the displayed list is the
\* pipeline applied to the catalog and the selection as they are now,
\* whatever the order of the user operations and the fetch completion.
C9_DerivedState ==
    Recomputed =>
        filteredProducts =
            JsonArray(FilterAndSort(Catalog, searchTerm, selectedCategories,
                                    selectedPriceRanges, selectedRatings,
                                    sortOption))

\* C9's case: a selection made while the request was pending has been
\* applied to the catalog that arrived, keeping one product and dropping
\* another.
C9_Witness ==
    /\ Succeeded
    /\ lastOp = "fetch"
    /\ Recomputed
    /\ selectedCategories # <<>>
    /\ Displayed # <<>>
    /\ Len(Displayed) < Len(Catalog)

\* C10: whenever the grid is rendered (loading flag false), every product of
\* the displayed list passes the filters active at that moment.
C10_NoStaleGrid ==
    (fetchState # "idle" /\ ~loading /\ ~crashed) =>
        FilterStages(Displayed, searchTerm, selectedCategories,
                     selectedPriceRanges, selectedRatings) = Displayed

====
